---------------------------- MODULE Spec2Model ----------------------------
(***************************************************************************)
(* axerrno: the error type of ArceOS.  One i32 carries either an           *)
(* AxErrorKind (positive code) or a LinuxError (negated errno).  The model *)
(* is a client that holds one Option<AxError> and calls the public         *)
(* conversions of src/lib.rs; every conversion is an operator computed the *)
(* way the code computes it, on 32-bit two's complement integers.          *)
(***************************************************************************)
EXTENDS Integers, Sequences, FiniteSets, TLC

VARIABLES
    overflow_checks,  \* build profile: TRUE = overflow checks on (debug), FALSE = off (release)
    e,                \* the AxError the client holds: None or Some(code)
    call,             \* the last call: [op |-> ..., <its argument>]
    ret,              \* what the last call returned (or that it panicked)
    arith             \* arithmetic event of the last call: "none", "wrap" or "panic"

vars == <<overflow_checks, e, call, ret, arith>>

---------------------------------------------------------------------------
\* i32

I32_MAX == 2147483647
I32_MIN == (0 - I32_MAX) - 1

\* Range of the small raw codes the client tries, on both sides of zero.
MaxProbe == 136

\* The raw i32 inputs: a window around zero that covers both catalogues and
\* their first rejected neighbours, and the ends of the i32 range.
ProbeValues ==
    (-MaxProbe .. MaxProbe) \cup {I32_MIN, I32_MIN + 1, I32_MAX - 1, I32_MAX}

\* Result<T, E> and Option<T>
Ok(v)  == [tag |-> "Ok", v |-> v]
Err(v) == [tag |-> "Err", v |-> v]
Panic  == [tag |-> "Panic"]
Unit   == [tag |-> "Unit"]
None    == [some |-> FALSE]
Some(v) == [some |-> TRUE, v |-> v]

\* What a transmute yields when the integer is no discriminant of the enum.
Undef == "<undefined>"

---------------------------------------------------------------------------
\* enum AxErrorKind, #[repr(i32)], AddrInUse = 1 and then in declaration order

AxErrorKindVariants ==
    << "AddrInUse", "AlreadyConnected", "AlreadyExists", "ArgumentListTooLong",
       "BadAddress", "BadFileDescriptor", "BadState", "BrokenPipe",
       "ConnectionRefused", "ConnectionReset", "CrossesDevices",
       "DirectoryNotEmpty", "FilesystemLoop", "IllegalBytes", "InProgress",
       "Interrupted", "InvalidData", "InvalidExecutable", "InvalidInput", "Io",
       "IsADirectory", "NameTooLong", "NoMemory", "NoSuchDevice",
       "NoSuchProcess", "NotADirectory", "NotASocket", "NotATty",
       "NotConnected", "NotFound", "OperationNotPermitted",
       "OperationNotSupported", "OutOfRange", "PermissionDenied",
       "ReadOnlyFilesystem", "ResourceBusy", "StorageFull", "TimedOut",
       "TooManyOpenFiles", "UnexpectedEof", "Unsupported", "WouldBlock",
       "WriteZero" >>

AxErrorKind == { AxErrorKindVariants[i] : i \in 1 .. Len(AxErrorKindVariants) }

\* strum::EnumCount
COUNT == Len(AxErrorKindVariants)

\* The discriminant of each variant
AxErrorKindValues ==
    [ kind \in AxErrorKind |->
        CHOOSE i \in 1 .. Len(AxErrorKindVariants) : AxErrorKindVariants[i] = kind ]

\* AxErrorKind::code: self as i32
AxErrorKind_code(kind) == AxErrorKindValues[kind]

\* core::mem::transmute::<i32, AxErrorKind>
transmute_AxErrorKind(value) ==
    IF value \in 1 .. Len(AxErrorKindVariants)
    THEN AxErrorKindVariants[value]
    ELSE Undef

\* Slip: the lower bound of the range check admits 0 (`value >= 0`).
AxErrorKind_try_from_i32_from_zero(value) ==
    IF value >= 0 /\ value <= COUNT
    THEN Ok(transmute_AxErrorKind(value))
    ELSE Err(value)

\* impl TryFrom<i32> for AxErrorKind
AxErrorKind_try_from_i32(value) ==
    IF value > 0 /\ value <= COUNT
    THEN Ok(transmute_AxErrorKind(value))
    ELSE Err(value)

---------------------------------------------------------------------------
\* enum LinuxError, #[repr(i32)]: the errno catalogue of linux_errno.rs

LinuxErrorValues ==
    [ EPERM |-> 1, ENOENT |-> 2, ESRCH |-> 3, EINTR |-> 4, EIO |-> 5,
      ENXIO |-> 6, E2BIG |-> 7, ENOEXEC |-> 8, EBADF |-> 9, ECHILD |-> 10,
      EAGAIN |-> 11, ENOMEM |-> 12, EACCES |-> 13, EFAULT |-> 14,
      ENOTBLK |-> 15, EBUSY |-> 16, EEXIST |-> 17, EXDEV |-> 18,
      ENODEV |-> 19, ENOTDIR |-> 20, EISDIR |-> 21, EINVAL |-> 22,
      ENFILE |-> 23, EMFILE |-> 24, ENOTTY |-> 25, ETXTBSY |-> 26,
      EFBIG |-> 27, ENOSPC |-> 28, ESPIPE |-> 29, EROFS |-> 30,
      EMLINK |-> 31, EPIPE |-> 32, EDOM |-> 33, ERANGE |-> 34,
      EDEADLK |-> 35, ENAMETOOLONG |-> 36, ENOLCK |-> 37, ENOSYS |-> 38,
      ENOTEMPTY |-> 39, ELOOP |-> 40, ENOMSG |-> 42, EIDRM |-> 43,
      ECHRNG |-> 44, EL2NSYNC |-> 45, EL3HLT |-> 46, EL3RST |-> 47,
      ELNRNG |-> 48, EUNATCH |-> 49, ENOCSI |-> 50, EL2HLT |-> 51,
      EBADE |-> 52, EBADR |-> 53, EXFULL |-> 54, ENOANO |-> 55,
      EBADRQC |-> 56, EBADSLT |-> 57, EBFONT |-> 59, ENOSTR |-> 60,
      ENODATA |-> 61, ETIME |-> 62, ENOSR |-> 63, ENONET |-> 64,
      ENOPKG |-> 65, EREMOTE |-> 66, ENOLINK |-> 67, EADV |-> 68,
      ESRMNT |-> 69, ECOMM |-> 70, EPROTO |-> 71, EMULTIHOP |-> 72,
      EDOTDOT |-> 73, EBADMSG |-> 74, EOVERFLOW |-> 75, ENOTUNIQ |-> 76,
      EBADFD |-> 77, EREMCHG |-> 78, ELIBACC |-> 79, ELIBBAD |-> 80,
      ELIBSCN |-> 81, ELIBMAX |-> 82, ELIBEXEC |-> 83, EILSEQ |-> 84,
      ERESTART |-> 85, ESTRPIPE |-> 86, EUSERS |-> 87, ENOTSOCK |-> 88,
      EDESTADDRREQ |-> 89, EMSGSIZE |-> 90, EPROTOTYPE |-> 91,
      ENOPROTOOPT |-> 92, EPROTONOSUPPORT |-> 93, ESOCKTNOSUPPORT |-> 94,
      EOPNOTSUPP |-> 95, EPFNOSUPPORT |-> 96, EAFNOSUPPORT |-> 97,
      EADDRINUSE |-> 98, EADDRNOTAVAIL |-> 99, ENETDOWN |-> 100,
      ENETUNREACH |-> 101, ENETRESET |-> 102, ECONNABORTED |-> 103,
      ECONNRESET |-> 104, ENOBUFS |-> 105, EISCONN |-> 106,
      ENOTCONN |-> 107, ESHUTDOWN |-> 108, ETOOMANYREFS |-> 109,
      ETIMEDOUT |-> 110, ECONNREFUSED |-> 111, EHOSTDOWN |-> 112,
      EHOSTUNREACH |-> 113, EALREADY |-> 114, EINPROGRESS |-> 115,
      ESTALE |-> 116, EUCLEAN |-> 117, ENOTNAM |-> 118, ENAVAIL |-> 119,
      EISNAM |-> 120, EREMOTEIO |-> 121, EDQUOT |-> 122, ENOMEDIUM |-> 123,
      EMEDIUMTYPE |-> 124, ECANCELED |-> 125, ENOKEY |-> 126,
      EKEYEXPIRED |-> 127, EKEYREVOKED |-> 128, EKEYREJECTED |-> 129,
      EOWNERDEAD |-> 130, ENOTRECOVERABLE |-> 131, ERFKILL |-> 132,
      EHWPOISON |-> 133 ]

LinuxError == DOMAIN LinuxErrorValues

\* LinuxError::code: self as i32
LinuxError_code(kind) == LinuxErrorValues[kind]

\* The discriminants in use, and the variant of each
LinuxErrorCodes == { LinuxErrorValues[x] : x \in LinuxError }
LinuxErrorOfCode ==
    [ c \in LinuxErrorCodes |-> CHOOSE x \in LinuxError : LinuxErrorValues[x] = c ]

\* core::mem::transmute::<i32, LinuxError>
transmute_LinuxError(value) ==
    IF value \in LinuxErrorCodes THEN LinuxErrorOfCode[value] ELSE Undef

\* impl TryFrom<i32> for LinuxError
LinuxError_try_from_i32(value) ==
    IF value \in LinuxErrorCodes
    THEN Ok(transmute_LinuxError(value))
    ELSE Err(value)

---------------------------------------------------------------------------
\* The two conversion tables between the catalogues

\* The arms of `match e` in impl From<AxErrorKind> for LinuxError
\* (BadAddress | BadState, InvalidInput | InvalidData and
\* UnexpectedEof | WriteZero share an arm)
KindToLinux ==
    [ AddrInUse |-> "EADDRINUSE", AlreadyConnected |-> "EISCONN",
      AlreadyExists |-> "EEXIST", ArgumentListTooLong |-> "E2BIG",
      BadAddress |-> "EFAULT", BadState |-> "EFAULT",
      BadFileDescriptor |-> "EBADF", BrokenPipe |-> "EPIPE",
      ConnectionRefused |-> "ECONNREFUSED", ConnectionReset |-> "ECONNRESET",
      CrossesDevices |-> "EXDEV", DirectoryNotEmpty |-> "ENOTEMPTY",
      FilesystemLoop |-> "ELOOP", IllegalBytes |-> "EILSEQ",
      InProgress |-> "EINPROGRESS", Interrupted |-> "EINTR",
      InvalidExecutable |-> "ENOEXEC", InvalidInput |-> "EINVAL",
      InvalidData |-> "EINVAL", Io |-> "EIO", IsADirectory |-> "EISDIR",
      NameTooLong |-> "ENAMETOOLONG", NoMemory |-> "ENOMEM",
      NoSuchDevice |-> "ENODEV", NoSuchProcess |-> "ESRCH",
      NotADirectory |-> "ENOTDIR", NotASocket |-> "ENOTSOCK",
      NotATty |-> "ENOTTY", NotConnected |-> "ENOTCONN",
      NotFound |-> "ENOENT", OperationNotPermitted |-> "EPERM",
      OperationNotSupported |-> "EOPNOTSUPP", OutOfRange |-> "ERANGE",
      PermissionDenied |-> "EACCES", ReadOnlyFilesystem |-> "EROFS",
      ResourceBusy |-> "EBUSY", StorageFull |-> "ENOSPC",
      TimedOut |-> "ETIMEDOUT", TooManyOpenFiles |-> "EMFILE",
      UnexpectedEof |-> "EIO", WriteZero |-> "EIO", Unsupported |-> "ENOSYS",
      WouldBlock |-> "EAGAIN" ]

\* impl From<AxErrorKind> for LinuxError (total, many-to-one)
LinuxError_from_AxErrorKind(kind) == KindToLinux[kind]

\* The arms of `match e` in impl TryFrom<LinuxError> for AxErrorKind, but the
\* last (`_ => return Err(e)`)
LinuxToKind ==
    [ EADDRINUSE |-> "AddrInUse", EISCONN |-> "AlreadyConnected",
      EEXIST |-> "AlreadyExists", E2BIG |-> "ArgumentListTooLong",
      EFAULT |-> "BadAddress", EBADF |-> "BadFileDescriptor",
      EPIPE |-> "BrokenPipe", ECONNREFUSED |-> "ConnectionRefused",
      ECONNRESET |-> "ConnectionReset", EXDEV |-> "CrossesDevices",
      ENOTEMPTY |-> "DirectoryNotEmpty", ELOOP |-> "FilesystemLoop",
      EILSEQ |-> "IllegalBytes", EINPROGRESS |-> "InProgress",
      EINTR |-> "Interrupted", ENOEXEC |-> "InvalidExecutable",
      EINVAL |-> "InvalidInput", EIO |-> "Io", EISDIR |-> "IsADirectory",
      ENAMETOOLONG |-> "NameTooLong", ENOMEM |-> "NoMemory",
      ENODEV |-> "NoSuchDevice", ESRCH |-> "NoSuchProcess",
      ENOTDIR |-> "NotADirectory", ENOTSOCK |-> "NotASocket",
      ENOTTY |-> "NotATty", ENOTCONN |-> "NotConnected",
      ENOENT |-> "NotFound", EPERM |-> "OperationNotPermitted",
      EOPNOTSUPP |-> "OperationNotSupported", ERANGE |-> "OutOfRange",
      EACCES |-> "PermissionDenied", EROFS |-> "ReadOnlyFilesystem",
      EBUSY |-> "ResourceBusy", ENOSPC |-> "StorageFull",
      ETIMEDOUT |-> "TimedOut", EMFILE |-> "TooManyOpenFiles",
      ENOSYS |-> "Unsupported", EAGAIN |-> "WouldBlock" ]

\* Slip: a copied arm, ENOTTY => NotASocket.
AxErrorKind_try_from_LinuxError_copied_arm(x) ==
    IF x \in DOMAIN LinuxToKind
    THEN Ok(IF x = "ENOTTY" THEN "NotASocket" ELSE LinuxToKind[x])
    ELSE Err(x)

\* Slip: the EAGAIN arm is missing, so EAGAIN falls to `_ => return Err(e)`.
AxErrorKind_try_from_LinuxError_missing_arm(x) ==
    IF x \in DOMAIN LinuxToKind /\ x # "EAGAIN" THEN Ok(LinuxToKind[x]) ELSE Err(x)

\* Slip: the EISDIR and ENOTDIR arms are exchanged.
AxErrorKind_try_from_LinuxError_swapped_arms(x) ==
    CASE x = "EISDIR" -> Ok("NotADirectory")
      [] x = "ENOTDIR" -> Ok("IsADirectory")
      [] x \in DOMAIN LinuxToKind \ {"EISDIR", "ENOTDIR"} -> Ok(LinuxToKind[x])
      [] OTHER -> Err(x)

\* impl TryFrom<LinuxError> for AxErrorKind (partial)
AxErrorKind_try_from_LinuxError(x) ==
    IF x \in DOMAIN LinuxToKind THEN Ok(LinuxToKind[x]) ELSE Err(x)

---------------------------------------------------------------------------
\* struct AxError(i32), #[repr(transparent)]: an AxError is its i32

\* Unary minus on i32: overflows exactly on i32::MIN, where a build with
\* overflow checks panics and a build without them wraps to i32::MIN.
neg_overflows(value) == value = I32_MIN

\* i32::wrapping_neg, the value -x has in two's complement: every i32 but
\* i32::MIN has its negation in range, and i32::MIN negates to itself.
neg_i32(value) == IF neg_overflows(value) THEN I32_MIN ELSE 0 - value

\* Slip: new_ax stores the code of the kind its errno maps back to, so the
\* kinds that share an errno share a code.
AxError_new_ax_collapsed(kind) ==
    AxErrorKind_code(AxErrorKind_try_from_LinuxError(LinuxError_from_AxErrorKind(kind)).v)

\* AxError::new_ax
AxError_new_ax(kind) == AxErrorKind_code(kind)

\* Slip: new_linux canonicalizes eagerly, storing the kind's code when the
\* errno has one.
AxError_new_linux_eager(kind) ==
    LET r == AxErrorKind_try_from_LinuxError(kind)
    IN  IF r.tag = "Ok" THEN AxErrorKind_code(r.v) ELSE neg_i32(LinuxError_code(kind))

\* AxError::new_linux
AxError_new_linux(kind) == neg_i32(LinuxError_code(kind))

\* enum AxErrorData
Ax(kind)    == [tag |-> "Ax", v |-> kind]
Linux(kind) == [tag |-> "Linux", v |-> kind]

\* AxError::new
AxError_new(d) ==
    IF d.tag = "Ax" THEN AxError_new_ax(d.v) ELSE AxError_new_linux(d.v)

\* AxError::data
AxError_data(self) ==
    IF self < 0
    THEN Linux(transmute_LinuxError(neg_i32(self)))
    ELSE Ax(transmute_AxErrorKind(self))

\* AxError::code
AxError_code(self) == self

\* impl From<AxErrorKind> for AxError
AxError_from_AxErrorKind(kind) == AxError_new_ax(kind)

\* impl From<LinuxError> for AxError
AxError_from_LinuxError(x) == AxError_new(Linux(x))

\* impl From<AxError> for LinuxError
LinuxError_from_AxError(self) ==
    LET d == AxError_data(self)
    IN  IF d.tag = "Ax" THEN LinuxError_from_AxErrorKind(d.v) ELSE d.v

\* Slip: the Ax arm answers with the kind's errno as the error.
AxErrorKind_try_from_AxError_wrong_arm(self) ==
    LET d == AxError_data(self)
    IN  IF d.tag = "Ax"
        THEN Err(LinuxError_from_AxErrorKind(d.v))
        ELSE AxErrorKind_try_from_LinuxError(d.v)

\* Slip: both arms go through the errno (LinuxError::from(e).try_into()).
AxErrorKind_try_from_AxError_via_errno(self) ==
    AxErrorKind_try_from_LinuxError(LinuxError_from_AxError(self))

\* impl TryFrom<AxError> for AxErrorKind
AxErrorKind_try_from_AxError(self) ==
    LET d == AxError_data(self)
    IN  IF d.tag = "Ax" THEN Ok(d.v) ELSE AxErrorKind_try_from_LinuxError(d.v)

\* Slip: canonicalize converts through the errno whatever the encoding.
AxError_canonicalize_via_errno(self) ==
    LET r == AxErrorKind_try_from_LinuxError(LinuxError_from_AxError(self))
    IN  IF r.tag = "Ok"
        THEN AxError_from_AxErrorKind(r.v)
        ELSE AxError_from_LinuxError(r.v)

\* AxError::canonicalize: map_or_else(Into::into, Into::into) sends Err(errno)
\* to AxError::from(errno) and Ok(kind) to AxError::from(kind)
AxError_canonicalize(self) ==
    LET r == AxErrorKind_try_from_AxError(self)
    IN  IF r.tag = "Ok"
        THEN AxError_from_AxErrorKind(r.v)
        ELSE AxError_from_LinuxError(r.v)

\* #[derive(Clone, Copy)] on AxError: a copy holds the same i32
AxError_clone(self) == self

\* Slip: the Linux lookup is given value, not -value.
AxError_try_from_i32_no_negation(value, checks) ==
    IF AxErrorKind_try_from_i32(value).tag = "Ok"
       \/ LinuxError_try_from_i32(value).tag = "Ok"
    THEN Ok(value)
    ELSE Err(value)

\* impl TryFrom<i32> for AxError.  `||` evaluates -value only when value is no
\* AxErrorKind code; checks = the build has overflow checks.
AxError_try_from_i32(value, checks) ==
    IF AxErrorKind_try_from_i32(value).tag = "Ok"
    THEN Ok(value)
    ELSE IF neg_overflows(value) /\ checks
    THEN Panic
    ELSE IF LinuxError_try_from_i32(neg_i32(value)).tag = "Ok"
    THEN Ok(value)
    ELSE Err(value)

\* The arithmetic event of the -value in AxError::try_from(i32)
AxError_try_from_i32_arith(value, checks) ==
    IF AxErrorKind_try_from_i32(value).tag = "Ok" \/ ~neg_overflows(value)
    THEN "none"
    ELSE IF checks THEN "panic" ELSE "wrap"

\* The associated constants AxError::AddrInUse .. AxError::WriteZero
AxError_CONST(name) == AxError_new_ax(name)

---------------------------------------------------------------------------
\* The client: it holds e: Option<AxError>, builds it with the constructors,
\* and calls the methods and conversions on the value it holds.

\* A panic ends the program.
Running == arith # "panic"

Init ==
    /\ overflow_checks \in BOOLEAN
    /\ e = None
    /\ call = [op |-> "start"]
    /\ ret = Unit
    /\ arith = "none"

\* let e = AxError::from(kind)
From_AxErrorKind(kind) ==
    /\ Running
    /\ call' = [op |-> "AxError::from(AxErrorKind)", kind |-> kind]
    /\ ret' = AxError_from_AxErrorKind(kind)
    /\ e' = Some(ret')
    /\ arith' = "none"
    /\ UNCHANGED overflow_checks

\* let e = AxError::from(errno)
From_LinuxError(x) ==
    /\ Running
    /\ call' = [op |-> "AxError::from(LinuxError)", errno |-> x]
    /\ ret' = AxError_from_LinuxError(x)
    /\ e' = Some(ret')
    /\ arith' = "none"
    /\ UNCHANGED overflow_checks

\* let e = AxError::<NAME>
Const(name) ==
    /\ Running
    /\ call' = [op |-> "AxError::CONST", name |-> name]
    /\ ret' = AxError_CONST(name)
    /\ e' = Some(ret')
    /\ arith' = "none"
    /\ UNCHANGED overflow_checks

\* e = AxError::try_from(value).ok(); a panic leaves e as it was
TryFrom_i32(value) ==
    /\ Running
    /\ call' = [op |-> "AxError::try_from(i32)", value |-> value]
    /\ ret' = AxError_try_from_i32(value, overflow_checks)
    /\ arith' = AxError_try_from_i32_arith(value, overflow_checks)
    /\ e' = CASE ret'.tag = "Ok" -> Some(ret'.v)
              [] ret'.tag = "Err" -> None
              [] OTHER -> e
    /\ UNCHANGED overflow_checks

\* e = e.canonicalize()
Canonicalize ==
    /\ Running
    /\ e.some
    /\ call' = [op |-> "AxError::canonicalize", self |-> e.v]
    /\ ret' = AxError_canonicalize(e.v)
    /\ e' = Some(ret')
    /\ arith' = "none"
    /\ UNCHANGED overflow_checks

\* LinuxError::from(e)
Into_LinuxError ==
    /\ Running
    /\ e.some
    /\ call' = [op |-> "LinuxError::from(AxError)", self |-> e.v]
    /\ ret' = LinuxError_from_AxError(e.v)
    /\ arith' = "none"
    /\ UNCHANGED <<overflow_checks, e>>

\* AxErrorKind::try_from(e)
TryInto_AxErrorKind ==
    /\ Running
    /\ e.some
    /\ call' = [op |-> "AxErrorKind::try_from(AxError)", self |-> e.v]
    /\ ret' = AxErrorKind_try_from_AxError(e.v)
    /\ arith' = "none"
    /\ UNCHANGED <<overflow_checks, e>>

\* e.code()
Code ==
    /\ Running
    /\ e.some
    /\ call' = [op |-> "AxError::code", self |-> e.v]
    /\ ret' = AxError_code(e.v)
    /\ arith' = "none"
    /\ UNCHANGED <<overflow_checks, e>>

\* let copy = e
Copy ==
    /\ Running
    /\ e.some
    /\ call' = [op |-> "AxError::clone", self |-> e.v]
    /\ ret' = AxError_clone(e.v)
    /\ arith' = "none"
    /\ UNCHANGED <<overflow_checks, e>>

\* AxErrorKind::try_from(errno), a conversion between the two catalogues that
\* involves no AxError: the client makes it while it holds none
Kind_TryFrom_LinuxError(x) ==
    /\ Running
    /\ ~e.some
    /\ call' = [op |-> "AxErrorKind::try_from(LinuxError)", errno |-> x]
    /\ ret' = AxErrorKind_try_from_LinuxError(x)
    /\ arith' = "none"
    /\ UNCHANGED <<overflow_checks, e>>

\* LinuxError::from(kind), likewise
Linux_From_AxErrorKind(kind) ==
    /\ Running
    /\ ~e.some
    /\ call' = [op |-> "LinuxError::from(AxErrorKind)", kind |-> kind]
    /\ ret' = LinuxError_from_AxErrorKind(kind)
    /\ arith' = "none"
    /\ UNCHANGED <<overflow_checks, e>>

Next ==
    \/ \E kind \in AxErrorKind : From_AxErrorKind(kind)
    \/ \E x \in LinuxError : From_LinuxError(x)
    \/ \E name \in AxErrorKind : Const(name)
    \/ \E value \in ProbeValues : TryFrom_i32(value)
    \/ Canonicalize
    \/ Into_LinuxError
    \/ TryInto_AxErrorKind
    \/ Code
    \/ Copy
    \/ \E x \in LinuxError : Kind_TryFrom_LinuxError(x)
    \/ \E kind \in AxErrorKind : Linux_From_AxErrorKind(kind)

Spec == Init /\ [][Next]_vars

---------------------------------------------------------------------------
\* Properties

\* The raw code i is accepted: it is an AxErrorKind code, or the negation of
\* a LinuxError code.
Accepted(i) ==
    \/ 1 <= i /\ i <= 43
    \/ \E x \in LinuxError : i = 0 - LinuxError_code(x)

\* C1: AxError::try_from(i) succeeds exactly when 1 <= i <= N (N = COUNT = 43)
\* or -i is a Linux errno; for i in 1..=N the Ok value is the AxError of the
\* kind whose discriminant is i (try_from(N) is WriteZero, and
\* try_from(e.code()) == Ok(e)); every rejected i comes back as Err(i).
C1_TryFromI32 ==
    /\ COUNT = 43
    /\ call.op = "AxError::try_from(i32)" =>
        LET i == call.value
        IN  /\ ret.tag = "Ok" <=> Accepted(i)
            /\ ret.tag = "Ok" => ret.v = i
            /\ 1 <= i /\ i <= 43 =>
                ret = Ok(AxError_from_AxErrorKind(AxErrorKindVariants[i]))
            /\ i = 43 => ret = Ok(AxError_CONST("WriteZero"))
            /\ ~Accepted(i) => ret = Err(i)

\* C1 on every raw code but i32::MIN (the part of C1 the code keeps).
C1_TryFromI32_AboveMin ==
    call.op = "AxError::try_from(i32)" /\ call.value # I32_MIN =>
        LET i == call.value
        IN  /\ ret.tag = "Ok" <=> Accepted(i)
            /\ ret.tag = "Ok" => ret.v = i
            /\ 1 <= i /\ i <= 43 =>
                ret = Ok(AxError_from_AxErrorKind(AxErrorKindVariants[i]))
            /\ ~Accepted(i) => ret = Err(i)

\* C2: sign discriminator.  The AxError the client holds, however it was
\* built, has code > 0 iff it decodes as an AxErrorKind, code < 0 iff it
\* decodes as a LinuxError, and never code 0.
C2_SignDiscriminator ==
    e.some =>
        LET d == AxError_data(e.v)
        IN  /\ AxError_code(e.v) # 0
            /\ AxError_code(e.v) > 0 <=> (d.tag = "Ax" /\ d.v \in AxErrorKind)
            /\ AxError_code(e.v) < 0 <=> (d.tag = "Linux" /\ d.v \in LinuxError)

\* C2 witness: a Linux-encoded value accepted by try_from(i32) is held.
C2_Witness ==
    /\ call.op = "AxError::try_from(i32)"
    /\ e.some
    /\ e.v < 0
    /\ AxError_data(e.v) = Linux("EHWPOISON")

\* C3: Linux round trip without eager canonicalization.  For every errno err
\* of value i, AxError::from(err).code() == -i and
\* LinuxError::from(AxError::from(err)) == err.
C3_LinuxRoundTrip ==
    call.op = "AxError::from(LinuxError)" =>
        /\ AxError_code(ret) = 0 - LinuxError_code(call.errno)
        /\ LinuxError_from_AxError(ret) = call.errno

\* C3 witness: an errno that has a canonical counterpart stays Linux-encoded.
C3_Witness ==
    /\ call.op = "AxError::from(LinuxError)"
    /\ call.errno = "EEXIST"
    /\ AxErrorKind_try_from_LinuxError(call.errno) = Ok("AlreadyExists")
    /\ ret = -17

\* C4: canonicalize(e) is the canonical encoding of the mapped kind (the
\* kind's discriminant, positive) when e is Linux-encoded and its errno is in
\* the reverse table, and e unchanged in every other case.
C4_Canonicalize ==
    call.op = "AxError::canonicalize" =>
        LET x == call.self
            errno == LinuxErrorOfCode[0 - x]
        IN  IF x < 0 /\ errno \in DOMAIN LinuxToKind
            THEN ret = AxErrorKind_code(LinuxToKind[errno]) /\ ret > 0
            ELSE ret = x

\* C4 witness: the Linux encoding of ENOENT becomes the canonical NotFound.
C4_Witness ==
    /\ call.op = "AxError::canonicalize"
    /\ call.self = -2
    /\ ret = AxErrorKind_code("NotFound")

\* C5: canonicalize is idempotent: canonicalizing what canonicalize returned
\* returns it again.
C5_CanonicalizeIdempotent ==
    call.op = "AxError::canonicalize" => AxError_canonicalize(ret) = ret

\* C5 witness: canonicalize changed its argument.
C5_Witness ==
    /\ call.op = "AxError::canonicalize"
    /\ call.self < 0
    /\ ret > 0

\* C6: AxErrorKind::try_from(e: AxError) is total: Ok of exactly the stored
\* kind for a canonical e, Ok of the mapped kind for a Linux e whose errno is
\* in the reverse table, Err of the errno itself otherwise.
C6_TryIntoKind ==
    call.op = "AxErrorKind::try_from(AxError)" =>
        LET x == call.self
            errno == LinuxErrorOfCode[0 - x]
        IN  CASE x > 0 -> ret = Ok(AxErrorKindVariants[x])
              [] x < 0 /\ errno \in DOMAIN LinuxToKind -> ret = Ok(LinuxToKind[errno])
              [] x < 0 /\ errno \notin DOMAIN LinuxToKind -> ret = Err(errno)
              [] OTHER -> FALSE

\* C6 witness: a Linux-encoded errno with no kind comes back as the error.
C6_Witness ==
    /\ call.op = "AxErrorKind::try_from(AxError)"
    /\ call.self = -6
    /\ ret = Err("ENXIO")

\* C7: the reverse table is a right inverse of the forward table: when
\* AxErrorKind::try_from(x) is Ok(k), LinuxError::from(k) == x, and so is
\* LinuxError::from of the canonical encoding of k.
C7_ReverseIsRightInverse ==
    call.op = "AxErrorKind::try_from(LinuxError)" /\ ret.tag = "Ok" =>
        /\ LinuxError_from_AxErrorKind(ret.v) = call.errno
        /\ LinuxError_from_AxError(AxError_from_AxErrorKind(ret.v)) = call.errno

\* C7 witness: an errno shared by two kinds maps back to one of them.
C7_Witness ==
    /\ call.op = "AxErrorKind::try_from(LinuxError)"
    /\ call.errno = "EINVAL"
    /\ ret = Ok("InvalidInput")

\* What AxErrorKind::try_from answers for the Linux encoding of errno x.
BackFromLinux(x) == AxErrorKind_try_from_AxError(AxError_from_LinuxError(x))

\* C8: canonical -> Linux -> back.  For a canonical AxError of kind k, the
\* errno x = LinuxError::from(it), Linux-encoded, converts back to Ok(k') for
\* some kind k' with LinuxError::from(k') == LinuxError::from(k).
C8_CanonicalLinuxBack ==
    call.op = "LinuxError::from(AxError)" /\ call.self > 0 =>
        LET k == AxErrorKindVariants[call.self]
            back == BackFromLinux(ret)
        IN  /\ back.tag = "Ok"
            /\ back.v \in AxErrorKind
            /\ LinuxError_from_AxErrorKind(back.v) = LinuxError_from_AxErrorKind(k)

\* C8 witness: the kind that comes back is not the kind that went in.
C8_Witness ==
    /\ call.op = "LinuxError::from(AxError)"
    /\ call.self = AxErrorKind_code("BadState")
    /\ BackFromLinux(ret) = Ok("BadAddress")

\* C9: many-to-one collapse keeps the encodings distinct.  AxError::BadAddress
\* and AxError::BadState both convert to EFAULT, with distinct positive
\* codes; and AxError::from gives no two kinds the same value.
C9_DistinctEncodings ==
    /\ call.op = "AxError::CONST" /\ call.name \in {"BadAddress", "BadState"} =>
        /\ LinuxError_from_AxError(ret) = "EFAULT"
        /\ AxError_code(ret) > 0
        /\ \A other \in {"BadAddress", "BadState"} \ {call.name} :
              AxError_code(AxError_CONST(other)) # AxError_code(ret)
    /\ call.op = "AxError::from(AxErrorKind)" =>
        \A other \in AxErrorKind \ {call.kind} :
            AxError_from_AxErrorKind(other) # ret

\* C9 witness: AxError::BadState is held.
C9_Witness ==
    /\ call.op = "AxError::CONST"
    /\ call.name = "BadState"
    /\ e = Some(7)

\* C10: AxError::try_from(i32) is total over the whole i32 range: every
\* input, i32::MIN included, gives Ok or Err(input), with no panic and no
\* arithmetic wrap or overflow.
C10_TryFromI32Total ==
    call.op = "AxError::try_from(i32)" =>
        /\ ret.tag \in {"Ok", "Err"}
        /\ ret.tag = "Err" => ret.v = call.value
        /\ arith = "none"

\* C10 on every raw code but i32::MIN (the part of C10 the code keeps).
C10_TryFromI32Total_AboveMin ==
    call.op = "AxError::try_from(i32)" /\ call.value # I32_MIN =>
        /\ ret.tag \in {"Ok", "Err"}
        /\ ret.tag = "Err" => ret.v = call.value
        /\ arith = "none"

\* The i32 c is the code of an AxErrorKind, or the negation of the code of a
\* LinuxError.
ValidCode(c) ==
    \/ 1 <= c /\ c <= 43
    \/ c < 0 /\ \E x \in LinuxError : c = 0 - LinuxError_code(x)

\* The calls that return an AxError, and the calls made on one.
ReturnsAxError ==
    call.op \in {"AxError::from(AxErrorKind)", "AxError::from(LinuxError)",
                 "AxError::CONST", "AxError::canonicalize", "AxError::clone"}
TakesAxError ==
    call.op \in {"AxError::canonicalize", "AxError::clone", "AxError::code",
                 "LinuxError::from(AxError)", "AxErrorKind::try_from(AxError)"}

\* C11: representation invariant.  After any sequence of public operations
\* every AxError (the one held, the one a call was made on, the one a call
\* returned) holds a code c with 1 <= c <= 43, or c < 0 with -c the value of
\* a LinuxError; so the transmute in data() is only applied to a discriminant
\* of the enum it produces.
C11_RepresentationInvariant ==
    /\ e.some => ValidCode(e.v) /\ AxError_data(e.v).v # Undef
    /\ TakesAxError => ValidCode(call.self) /\ AxError_data(call.self).v # Undef
    /\ ReturnsAxError => ValidCode(ret) /\ AxError_data(ret).v # Undef
    /\ call.op = "AxError::try_from(i32)" /\ ret.tag = "Ok" => ValidCode(ret.v)

\* C11 witness: a value that try_from(i32) accepted from the far end of the
\* errno catalogue was canonicalized, copied or decoded, and is still held.
C11_Witness ==
    /\ TakesAxError
    /\ call.self = -133
    /\ e = Some(-133)
    /\ AxError_data(e.v) = Linux("EHWPOISON")

\* C12: canonicalize preserves the Linux errno: for every constructible
\* AxError e, LinuxError::from(e.canonicalize()) == LinuxError::from(e).
C12_CanonicalizePreservesErrno ==
    call.op = "AxError::canonicalize" =>
        LinuxError_from_AxError(ret) = LinuxError_from_AxError(call.self)

\* C12 witness: canonicalize turned the Linux encoding of EINVAL, an errno
\* two kinds share, into a canonical value, and the errno is still EINVAL.
C12_Witness ==
    /\ call.op = "AxError::canonicalize"
    /\ call.self = -22
    /\ ret = AxErrorKind_code("InvalidInput")
    /\ LinuxError_from_AxError(ret) = "EINVAL"

===========================================================================
